---- MODULE Spec2Model ----
(***************************************************************************)
(* A model of the FastAPI demonstration application of src/main.py: the    *)
(* two in-process mappings fake_db and db_items, the read-only list        *)
(* fake_items_db, and the handlers that read or write them.                *)
(*                                                                         *)
(* Python values are tagged records of one shape, so that None, strings,   *)
(* ints, floats and lists of strings can be told apart and compared.       *)
(* Floats are kept in tenths (50.2 is PyFloat(502)); an int keeps its own  *)
(* value (62 is PyInt(62)), so that pydantic's int -> float coercion is a  *)
(* change of representation the checks can see.                            *)
(***************************************************************************)
EXTENDS Integers, Sequences, FiniteSets, TLC

VARIABLES
    db_items,   \* src/main.py:235  item_id -> stored dict
    fake_db,    \* src/main.py:214  id -> encoded item
    fake_items_db, \* src/main.py:68  the list the query routes slice
    collection, \* the product collection of the document store
    inflight,   \* PATCH requests accepted by the event loop, handler not yet run
    nreq,       \* number of requests received so far
    request,    \* the request whose handler ran last
    response,   \* the response it ended in
    log         \* history: the PATCH and PUT requests in the order their handlers ran

vars == <<db_items, fake_db, fake_items_db, collection, inflight, nreq, request, response, log>>

----------------------------------------------------------------------------
(* Python values *)

None == [t |-> "none", n |-> 0, s |-> "", l |-> <<>>]
PyStr(x) == [t |-> "str", n |-> 0, s |-> x, l |-> <<>>]
PyInt(i) == [t |-> "int", n |-> i, s |-> "", l |-> <<>>]
PyFloat(tenths) == [t |-> "float", n |-> tenths, s |-> "", l |-> <<>>]
PyList(xs) == [t |-> "list", n |-> 0, s |-> "", l |-> xs]

EmptyDict == [k \in {} |-> None]

\* Python's ==: an int and a float are equal when they denote the same number.
PyNum(v) == IF v.t = "int" THEN 10 * v.n ELSE v.n
PyEq(a, b) ==
    IF a.t \in {"int", "float"} /\ b.t \in {"int", "float"}
    THEN PyNum(a) = PyNum(b)
    ELSE a = b

----------------------------------------------------------------------------
(* class ItemFake(BaseModel), src/main.py:217-222 *)

ItemFakeFields == {"name", "description", "price", "tax", "tags"}

ItemFakeDefault(f) ==
    CASE f = "name" -> None
      [] f = "description" -> None
      [] f = "price" -> None
      [] f = "tax" -> PyFloat(105)
      [] f = "tags" -> PyList(<<>>)

\* Whether pydantic accepts v for field f (its annotation at lines 218-222).
ItemFakeAccepts(f, v) ==
    CASE f \in {"name", "description"} -> v.t \in {"str", "none"}
      [] f = "price" -> v.t \in {"float", "int", "none"}
      [] f = "tax" -> v.t \in {"float", "int"}
      [] f = "tags" -> v.t = "list"

\* The value the validated field holds: an int given for a float field
\* becomes that float.
ItemFakeCoerce(f, v) ==
    IF f \in {"price", "tax"} /\ v.t = "int" THEN PyFloat(10 * v.n) ELSE v

ItemFakeValid(data) ==
    \A f \in DOMAIN data \cap ItemFakeFields : ItemFakeAccepts(f, data[f])

\* Faulty variant: a model configured to keep keys that are no field.
ItemFake_extra_allow(data) ==
    [fields |-> [f \in ItemFakeFields \cup DOMAIN data |->
                    IF f \in DOMAIN data
                    THEN (IF f \in ItemFakeFields THEN ItemFakeCoerce(f, data[f]) ELSE data[f])
                    ELSE ItemFakeDefault(f)],
     fields_set |-> DOMAIN data]

\* ItemFake(**data): keys that are no field are ignored, missing fields take
\* their default, and fields_set records the fields that were given.
ItemFake(data) ==
    [fields |-> [f \in ItemFakeFields |->
                    IF f \in DOMAIN data
                    THEN ItemFakeCoerce(f, data[f])
                    ELSE ItemFakeDefault(f)],
     fields_set |-> DOMAIN data \cap ItemFakeFields]

\* Faulty variant: model_dump() without exclude_unset.
model_dump_all(m) == m.fields

\* item.model_dump(exclude_unset=True), src/main.py:248
model_dump_exclude_unset(m) == [f \in m.fields_set |-> m.fields[f]]

\* Faulty variant: an update that extends the stored tags instead of replacing them.
model_copy_extend_tags(m, update) ==
    [fields |-> [f \in DOMAIN m.fields |->
                    IF f \in DOMAIN update
                    THEN (IF f = "tags"
                          THEN PyList(m.fields[f].l \o update[f].l)
                          ELSE update[f])
                    ELSE m.fields[f]],
     fields_set |-> m.fields_set \cup DOMAIN update]

\* stored_item_model.model_copy(update=update_data), src/main.py:249
model_copy(m, update) ==
    [fields |-> [f \in DOMAIN m.fields |->
                    IF f \in DOMAIN update THEN update[f] ELSE m.fields[f]],
     fields_set |-> m.fields_set \cup DOMAIN update]

\* jsonable_encoder(model): the dict of every field, set or not.
jsonable_encoder(m) == [f \in DOMAIN m.fields |-> m.fields[f]]

----------------------------------------------------------------------------
(* The application: how a handler's outcome becomes a response *)

\* A handler ends by returning a value or by raising an exception.
Returned(value) ==
    [raised |-> FALSE, value |-> value,
     exc |-> [type |-> "", name |-> "", status_code |-> 0, detail |-> "", headers |-> <<>>]]
Raised(exc) == [raised |-> TRUE, value |-> EmptyDict, exc |-> exc]

Response(status, body, headers, unhandled) ==
    [status |-> status, body |-> body, headers |-> headers, unhandled |-> unhandled]

\* class UnicornException(Exception), src/main.py:158-160
UnicornException(name) ==
    [type |-> "UnicornException", name |-> name, status_code |-> 0, detail |-> "",
     headers |-> <<>>]

\* raise HTTPException(status_code=..., detail=..., headers=...), src/main.py:149-153
HTTPException(status_code, detail, headers) ==
    [type |-> "HTTPException", name |-> "", status_code |-> status_code,
     detail |-> detail, headers |-> headers]

KeyError == [type |-> "KeyError", name |-> "", status_code |-> 0, detail |-> "", headers |-> <<>>]

\* @app.exception_handler(UnicornException), src/main.py:163-168
unicorn_exception_handler(exc) ==
    Response(418,
             "message" :> PyStr("Oops! " \o exc.name \o " did something. There goes a rainbow..."),
             <<>>, "")

\* The framework's handler of HTTPException: the exception's status, detail
\* and headers.
http_exception_handler(exc) ==
    Response(exc.status_code, "detail" :> PyStr(exc.detail), exc.headers, "")

\* Faulty variant: the UnicornException handler is not registered.
exception_handlers_without_unicorn == {"HTTPException"}

\* The exception types the application has a handler for: the framework's
\* own for HTTPException and the one registered at src/main.py:163.
exception_handlers == {"HTTPException", "UnicornException"}

\* An exception with no handler leaves the application unhandled: the server
\* answers 500.
app(outcome) ==
    IF ~outcome.raised THEN Response(200, outcome.value, <<>>, "")
    ELSE IF outcome.exc.type \notin exception_handlers
         THEN Response(500, EmptyDict, <<>>, outcome.exc.type)
    ELSE IF outcome.exc.type = "UnicornException"
         THEN unicorn_exception_handler(outcome.exc)
    ELSE http_exception_handler(outcome.exc)

\* A request body the model rejects never reaches the handler.
RequestValidationError == Response(422, EmptyDict, <<>>, "")

----------------------------------------------------------------------------
(* Handlers *)

\* GET /unicorns/{name}, src/main.py:178-182
read_unicorn(name) ==
    IF name = "yolo"
    THEN Raised(UnicornException(name))
    ELSE Returned("unicorn_name" :> PyStr(name))

\* Faulty variant: the file is judged by its name, not its content type.
create_upload_file_by_extension(file) ==
    IF file.filename \notin {PyStr("a.jpg")}
    THEN Raised(HTTPException(400, "Only JPEG allowed",
                              "X-Error" :> "There goes my error"))
    ELSE Returned("filename" :> file.filename)

\* POST /uploadfile/, src/main.py:144-154
create_upload_file(file) ==
    IF file.content_type # PyStr("image/jpeg")
    THEN Raised(HTTPException(400, "Only JPEG allowed",
                              "X-Error" :> "There goes my error"))
    ELSE Returned("filename" :> file.filename)

\* Faulty variant: a PUT that merges into the entry already stored.
update_item_fake_merge(db, id, item) ==
    IF id \in DOMAIN db
    THEN [db EXCEPT ![id] = jsonable_encoder(model_copy(ItemFake(db[id]),
                                                        model_dump_exclude_unset(item)))]
    ELSE (id :> jsonable_encoder(item)) @@ db

\* PUT /json/items/{id}, src/main.py:226-232: the new value of fake_db.
update_item_fake(db, id, item) == (id :> jsonable_encoder(item)) @@ db

\* What the PATCH handler leaves behind: the new db_items and its outcome.
PatchResult(db, outcome) == [db_items |-> db, outcome |-> outcome]

\* Faulty variant: db_items.get(item_id, {}) in place of db_items[item_id].
update_item_fake_db_get(db, item_id, item) ==
    LET stored_item_data == IF item_id \in DOMAIN db THEN db[item_id] ELSE EmptyDict
        stored_item_model == ItemFake(stored_item_data)
        update_data == model_dump_exclude_unset(item)
        updated_item == model_copy(stored_item_model, update_data)
    IN  PatchResult((item_id :> jsonable_encoder(updated_item)) @@ db,
                    Returned(updated_item))

\* PATCH /patching_items/{item_id}, src/main.py:243-251.  db_items[item_id]
\* raises KeyError for a missing key, before anything is written; a stored
\* entry is always a dict, so line 246 never raises.
update_item_fake_db(db, item_id, item) ==
    IF item_id \notin DOMAIN db THEN PatchResult(db, Raised(KeyError))
    ELSE
    LET stored_item_data == db[item_id]
        stored_item_model == ItemFake(stored_item_data)
        update_data == model_dump_exclude_unset(item)
        updated_item == model_copy(stored_item_model, update_data)
    IN  PatchResult([db EXCEPT ![item_id] = jsonable_encoder(updated_item)],
                    Returned(updated_item))

ResponseValidationError ==
    [type |-> "ResponseValidationError", name |-> "", status_code |-> 0, detail |-> "",
     headers |-> <<>>]

\* pydantic's error for a model it cannot build.
ValidationError ==
    [type |-> "ValidationError", name |-> "", status_code |-> 0, detail |-> "",
     headers |-> <<>>]

\* response_model=ItemFake, src/main.py:242, 258, 271: a returned model
\* instance is serialized with every field; a returned dict is first
\* validated into an ItemFake.
response_model_ItemFake(outcome) ==
    IF outcome.raised THEN outcome
    ELSE IF DOMAIN outcome.value = {"fields", "fields_set"}
         THEN Returned(jsonable_encoder(outcome.value))
    ELSE IF ~ItemFakeValid(outcome.value)
         THEN Raised(ResponseValidationError)
    ELSE Returned(jsonable_encoder(ItemFake(outcome.value)))

----------------------------------------------------------------------------
(* Bounds and the requests the model sends *)

MaxRequests == 3

\* db_items = {...}, src/main.py:235-239
db_items_literal ==
    ("foo" :> (("name" :> PyStr("Foo")) @@ ("price" :> PyFloat(502)))) @@
    ("bar" :> (("name" :> PyStr("Bar")) @@ ("description" :> PyStr("The bartenders")) @@
               ("price" :> PyInt(62)) @@ ("tax" :> PyFloat(202)))) @@
    ("baz" :> (("name" :> PyStr("Baz")) @@ ("description" :> None) @@
               ("price" :> PyFloat(502)) @@ ("tax" :> PyFloat(105)) @@
               ("tags" :> PyList(<<>>))))

\* JSON request bodies for an ItemFake parameter; the last one is rejected
\* (tax is not nullable).
Bodies ==
    { EmptyDict,
      ("name" :> PyStr("New")) @@ ("price" :> PyInt(5)),
      ("description" :> None) @@ ("tax" :> PyFloat(202)) @@ ("tags" :> PyList(<<"a">>)),
      ("tax" :> None) }

PatchIds == {"foo", "bar", "qux"}
PutIds == {"a", "foo"}
UnicornNames == {"yolo", "Yolo", "bob"}
UploadFiles ==
    { [content_type |-> PyStr("image/jpeg"), filename |-> PyStr("a.jpg")],
      [content_type |-> PyStr("image/jpeg"), filename |-> None],
      [content_type |-> PyStr("IMAGE/JPEG"), filename |-> PyStr("a.jpg")],
      [content_type |-> None, filename |-> PyStr("a.png")] }

\* fake_items_db = [...], src/main.py:68
fake_items_db_literal ==
    << "item_name" :> PyStr("Foo"), "item_name" :> PyStr("Bar"), "item_name" :> PyStr("Baz") >>

NoRequest == [route |-> "", rid |-> 0]
NoResponse == Response(0, EmptyDict, <<>>, "")

----------------------------------------------------------------------------
(* The application serving requests on db_items and fake_db *)

Init ==
    /\ db_items = db_items_literal
    /\ fake_db = EmptyDict
    /\ fake_items_db = fake_items_db_literal
    /\ collection = <<>>
    /\ inflight = {}
    /\ nreq = 0
    /\ request = NoRequest
    /\ response = NoResponse
    /\ log = <<>>

\* A PATCH request arrives.  The framework validates the body: a rejected
\* body is answered 422 at once, an accepted one becomes a handler
\* invocation waiting for the event loop.
ReceivePatch(item_id, body) ==
    /\ nreq < MaxRequests
    /\ nreq' = nreq + 1
    /\ IF ItemFakeValid(body)
       THEN /\ inflight' = inflight \cup
                  {[route |-> "PATCH", rid |-> nreq + 1, item_id |-> item_id, body |-> body]}
            /\ UNCHANGED <<request, response>>
       ELSE /\ request' = [route |-> "PATCH", rid |-> nreq + 1, item_id |-> item_id,
                           body |-> body]
            /\ response' = RequestValidationError
            /\ UNCHANGED inflight
    /\ UNCHANGED <<db_items, fake_db, fake_items_db, collection, log>>

\* Faulty variant: an await between the read at line 244 and the write at
\* line 250, so that two waiting handlers both read before either writes.
RunPatchWithSuspension(r) ==
    /\ r \in inflight
    /\ \E r2 \in inflight :
         LET res == update_item_fake_db(db_items, r.item_id, ItemFake(r.body))
             res2 == update_item_fake_db(db_items, r2.item_id, ItemFake(r2.body))
         IN  /\ db_items' = [k \in DOMAIN res.db_items |->
                                IF k = r2.item_id /\ k \in DOMAIN res2.db_items
                                THEN res2.db_items[k] ELSE res.db_items[k]]
             /\ response' = app(response_model_ItemFake(res2.outcome))
             /\ request' = r2
             /\ inflight' = inflight \ {r, r2}
             /\ log' = IF r2 = r THEN Append(log, r) ELSE Append(Append(log, r), r2)
    /\ UNCHANGED <<fake_db, fake_items_db, collection, nreq>>

\* The event loop runs one waiting PATCH handler.  update_item_fake_db is a
\* coroutine with no await in it (lines 244-251), so it runs from its first
\* line to its return with no other handler in between.
RunPatch(r) ==
    /\ r \in inflight
    /\ LET res == update_item_fake_db(db_items, r.item_id, ItemFake(r.body))
       IN  /\ db_items' = res.db_items
           /\ response' = app(response_model_ItemFake(res.outcome))
    /\ request' = r
    /\ inflight' = inflight \ {r}
    /\ log' = Append(log, r)
    /\ UNCHANGED <<fake_db, fake_items_db, collection, nreq>>

\* PUT /json/items/{id}: the handler returns nothing, the body is null.
PutItem(id, body) ==
    /\ nreq < MaxRequests
    /\ nreq' = nreq + 1
    /\ request' = [route |-> "PUT", rid |-> nreq + 1, item_id |-> id, body |-> body]
    /\ IF ItemFakeValid(body)
       THEN /\ fake_db' = update_item_fake(fake_db, id, ItemFake(body))
            /\ log' = Append(log, request')
            /\ response' = app(Returned(EmptyDict))
       ELSE /\ response' = RequestValidationError
            /\ UNCHANGED <<fake_db, log>>
    /\ UNCHANGED <<db_items, fake_items_db, collection, inflight>>

GetUnicorn(name) ==
    /\ nreq < MaxRequests
    /\ nreq' = nreq + 1
    /\ request' = [route |-> "unicorns", rid |-> nreq + 1, name |-> name]
    /\ response' = app(read_unicorn(name))
    /\ UNCHANGED <<db_items, fake_db, fake_items_db, collection, inflight, log>>

PostUploadFile(file) ==
    /\ nreq < MaxRequests
    /\ nreq' = nreq + 1
    /\ request' = [route |-> "uploadfile", rid |-> nreq + 1, file |-> file]
    /\ response' = app(create_upload_file(file))
    /\ UNCHANGED <<db_items, fake_db, fake_items_db, collection, inflight, log>>

Next ==
    \/ \E item_id \in PatchIds, body \in Bodies : ReceivePatch(item_id, body)
    \/ \E r \in inflight : RunPatch(r)
    \/ \E id \in PutIds, body \in Bodies : PutItem(id, body)
    \/ \E name \in UnicornNames : GetUnicorn(name)
    \/ \E file \in UploadFiles : PostUploadFile(file)

Spec == Init /\ [][Next]_vars

----------------------------------------------------------------------------
(* Properties of the application *)

\* This step answered the request now in request'.
Served(route) == request'.rid # request.rid /\ request'.route = route

\* This step ran the PATCH handler on the request now in request'.
PatchHandlerRan == Served("PATCH") /\ log' = Append(log, request')

\* C1: GET /unicorns/{name} ends in status 418 with the rainbow message
\* exactly when name is "yolo", ends in {"unicorn_name": name} for every
\* other name, and the UnicornException never leaves the application
\* unhandled.
C1_UnicornOutcome ==
    request.route = "unicorns" =>
        /\ (request.name = "yolo") <=> (response.status = 418)
        /\ response.status = 418 =>
              response.body =
                 ("message" :> PyStr("Oops! yolo did something. There goes a rainbow..."))
        /\ request.name # "yolo" =>
              /\ response.status = 200
              /\ response.body = ("unicorn_name" :> PyStr(request.name))
        /\ response.unhandled = ""

C1_Witness ==
    /\ request.route = "unicorns"
    /\ request.name = "yolo"
    /\ response.status = 418

C2_UploadAnswer ==
    request.route = "uploadfile" =>
        /\ (request.file.content_type # PyStr("image/jpeg")) <=> (response.status = 400)
        /\ response.status = 400 =>
              /\ response.body = ("detail" :> PyStr("Only JPEG allowed"))
              /\ response.headers = ("X-Error" :> "There goes my error")
        /\ response.status # 400 =>
              /\ response.status = 200
              /\ response.body = ("filename" :> request.file.filename)

\* C2: POST /uploadfile/ is rejected with status 400, detail "Only JPEG
\* allowed" and header X-Error exactly when the content type is not
\* "image/jpeg", returns the file's name otherwise, and in neither case
\* changes fake_db or db_items.
C2_Upload ==
    /\ []C2_UploadAnswer
    /\ [][Served("uploadfile") => (fake_db' = fake_db /\ db_items' = db_items)]_vars

C2_Witness ==
    /\ request.route = "uploadfile"
    /\ request.file.content_type = PyStr("IMAGE/JPEG")
    /\ response.status = 400
    /\ fake_db # EmptyDict
    /\ db_items # db_items_literal

\* C4: a PATCH handler invocation whose item_id is no key of db_items ends
\* in a KeyError no handler catches (status 500, not 404), and leaves
\* db_items and fake_db as they were.
C4_MissingRecord ==
    [][(PatchHandlerRan /\ request'.item_id \notin DOMAIN db_items)
        => /\ response'.unhandled = "KeyError"
           /\ response'.status = 500
           /\ db_items' = db_items
           /\ fake_db' = fake_db]_vars

C4_Witness ==
    /\ request.route = "PATCH"
    /\ request.item_id = "qux"
    /\ response.unhandled = "KeyError"
    /\ db_items # db_items_literal

\* The PATCH requests on item_id whose handlers have run, in that order.
PatchesOn(item_id) ==
    SelectSeq(log, LAMBDA r : r.route = "PATCH" /\ r.item_id = item_id)

\* db after the handlers of rs ran one after another.
RECURSIVE ApplyPatches(_, _)
ApplyPatches(db, rs) ==
    IF rs = <<>> THEN db
    ELSE ApplyPatches(
            update_item_fake_db(db, Head(rs).item_id, ItemFake(Head(rs).body)).db_items,
            Tail(rs))

Orders(n) == {p \in [1..n -> 1..n] : \A i, j \in 1..n : i # j => p[i] # p[j]}

\* C5: under every interleaving of concurrently in-flight PATCH handlers,
\* db_items[item_id] is what applying the patches that ran, one after
\* another in some order, gives: no update is lost.
C5_NoLostUpdate ==
    \A item_id \in DOMAIN db_items :
        LET rs == PatchesOn(item_id)
        IN  \E p \in Orders(Len(rs)) :
                ApplyPatches(db_items_literal,
                             [i \in 1..Len(rs) |-> rs[p[i]]])[item_id]
                    = db_items[item_id]

\* Two patches of different fields of one item, in flight together, the
\* later arrival run first.
C5_Witness ==
    /\ Len(log) >= 2
    /\ log[1].route = "PATCH" /\ log[2].route = "PATCH"
    /\ log[1].item_id = "foo" /\ log[2].item_id = "foo"
    /\ log[1].rid > log[2].rid
    /\ DOMAIN log[1].body # {} /\ DOMAIN log[2].body # {}
    /\ DOMAIN log[1].body \cap DOMAIN log[2].body = {}

C6_Defaults ==
    ("name" :> None) @@ ("description" :> None) @@ ("price" :> None) @@
    ("tax" :> PyFloat(105)) @@ ("tags" :> PyList(<<>>))

\* C6: a PATCH handler invocation on an existing item_id leaves in
\* db_items[item_id], for each of the five fields, the request item's value
\* when the request set the field, else the value stored before, else the
\* model default; the entry then has all five fields, the returned item is
\* the stored entry, and no other entry changes.
C6_PartialUpdate ==
    [][(PatchHandlerRan /\ request'.item_id \in DOMAIN db_items)
        => LET item_id == request'.item_id
               body == request'.body
               old == db_items[item_id]
               new == db_items'[item_id]
           IN  /\ DOMAIN new = {"name", "description", "price", "tax", "tags"}
               /\ \A f \in DOMAIN new :
                     IF f \in DOMAIN body THEN PyEq(new[f], body[f])
                     ELSE IF f \in DOMAIN old THEN PyEq(new[f], old[f])
                     ELSE new[f] = C6_Defaults[f]
               /\ response'.status = 200
               /\ response'.body = new
               /\ DOMAIN db_items' = DOMAIN db_items
               /\ \A k \in DOMAIN db_items \ {item_id} : db_items'[k] = db_items[k]]_vars

\* bar was patched with a name and a price only: its description and tax
\* are the stored ones, its tags the default.
C6_Witness ==
    /\ request.route = "PATCH"
    /\ request.item_id = "bar"
    /\ DOMAIN request.body = {"name", "price"}
    /\ response.status = 200
    /\ db_items["bar"]["name"] = PyStr("New")
    /\ db_items["bar"]["description"] = PyStr("The bartenders")
    /\ db_items["bar"]["tags"] = PyList(<<>>)

\* The PUT requests on id whose handlers have run, in that order.
PutsOn(id) == SelectSeq(log, LAMBDA r : r.route = "PUT" /\ r.item_id = id)

C7_LastPutStored ==
    /\ DOMAIN fake_db = {id \in PutIds : PutsOn(id) # <<>>}
    /\ \A id \in DOMAIN fake_db :
          LET puts == PutsOn(id)
          IN  fake_db[id] = jsonable_encoder(ItemFake(puts[Len(puts)].body))

\* C7: after any sequence of PUT requests fake_db[id] is the encoding of
\* the item of the most recent PUT for id, for every id written; ids never
\* written are absent; and no PUT changes db_items.
C7_Put ==
    /\ []C7_LastPutStored
    /\ [][Served("PUT") => db_items' = db_items]_vars

\* The same id was written twice, with different items.
C7_Witness ==
    /\ request.route = "PUT"
    /\ Len(PutsOn("foo")) = 2
    /\ PutsOn("foo")[1].body # PutsOn("foo")[2].body
    /\ DOMAIN PutsOn("foo")[1].body # {}
    /\ db_items # db_items_literal

ValidItems == {ItemFake(b) : b \in {b \in Bodies : ItemFakeValid(b)}}

\* db_items changes only when a PATCH handler runs: every db_items the
\* application reaches is seen at the start or right after a PATCH.
C9_Twice ==
    request.route \in {"", "PATCH"} =>
    \A item_id \in DOMAIN db_items :
        \A item \in ValidItems :
            LET once == update_item_fake_db(db_items, item_id, item)
            IN  LET twice == update_item_fake_db(once.db_items, item_id, item)
                IN  /\ twice.db_items = once.db_items
                    /\ response_model_ItemFake(twice.outcome)
                          = response_model_ItemFake(once.outcome)

\* C9: the same PATCH sent twice in a row leaves db_items as sending it once
\* does and both are answered with the same item, from every db_items the
\* application reaches; and the keys of db_items are always foo, bar and baz.
C9_Idempotent ==
    /\ [](DOMAIN db_items = {"foo", "bar", "baz"})
    /\ []C9_Twice
    /\ [][(PatchHandlerRan /\ request.route = "PATCH"
              /\ response.status = 200
              /\ request'.item_id = request.item_id
              /\ request'.body = request.body)
           => (db_items' = db_items /\ response' = response)]_vars

\* The last two handlers that ran were the same PATCH of an existing item.
C9_Witness ==
    /\ Len(log) >= 2
    /\ request = log[Len(log)]
    /\ request.route = "PATCH"
    /\ log[Len(log) - 1].route = "PATCH"
    /\ log[Len(log) - 1].item_id = request.item_id
    /\ log[Len(log) - 1].body = request.body
    /\ request.item_id \in DOMAIN db_items
    /\ "tags" \in DOMAIN request.body
    /\ response.status = 200

----------------------------------------------------------------------------
(* The query-parameter and pagination routes *)

MaxInt == 4

Min(a, b) == IF a < b THEN a ELSE b
Max(a, b) == IF a > b THEN a ELSE b

\* Python's truth value of v, as "if commons.q:" takes it.
Truthy(v) ==
    CASE v.t = "none" -> FALSE
      [] v.t = "str" -> v.s # ""
      [] v.t \in {"int", "float"} -> v.n # 0
      [] v.t = "list" -> v.l # <<>>

\* Python's seq[start:stop]: a negative index counts from the end, and both
\* are clamped to the sequence.
PySlice(seq, start, stop) ==
    LET n == Len(seq)
        lo == IF start < 0 THEN Max(start + n, 0) ELSE Min(start, n)
        hi == IF stop < 0 THEN Max(stop + n, 0) ELSE Min(stop, n)
    IN  [i \in 1..Max(hi - lo, 0) |-> seq[lo + i]]

\* A query string: each parameter is given once or left out.
Queries ==
    [q : {<<>>, <<"">>, <<"x">>},
     skip : {<<>>} \cup {<<i>> : i \in -MaxInt..MaxInt},
     limit : {<<>>} \cup {<<i>> : i \in -MaxInt..MaxInt}]

\* class CommonQueryParams, src/main.py:281-285
CommonQueryParams(query) ==
    [q |-> IF query.q = <<>> THEN None ELSE PyStr(query.q[1]),
     skip |-> IF query.skip = <<>> THEN 0 ELSE query.skip[1],
     limit |-> IF query.limit = <<>> THEN 100 ELSE query.limit[1]]

\* @dataclass class CommonQueryParamsDataClass, src/main.py:298-302
CommonQueryParamsDataClass(query) ==
    [q |-> IF query.q = <<>> THEN None ELSE PyStr(query.q[1]),
     skip |-> IF query.skip = <<>> THEN 0 ELSE query.skip[1],
     limit |-> IF query.limit = <<>> THEN 100 ELSE query.limit[1]]

\* GET /query_params/items/, src/main.py:289-295
read_items_query_params(items_db, commons) ==
    LET response0 == EmptyDict
        response1 == IF Truthy(commons.q) THEN ("q" :> commons.q) @@ response0
                     ELSE response0
        items == PySlice(items_db, commons.skip, commons.skip + commons.limit)
    IN  Returned(("items" :> PyList(items)) @@ response1)

\* Faulty variant: the slice stops at limit instead of skip + limit.
read_items_query_params_dat_class_stop_limit(items_db, commons) ==
    LET response0 == EmptyDict
        response1 == IF Truthy(commons.q) THEN ("q" :> commons.q) @@ response0
                     ELSE response0
        items == PySlice(items_db, commons.skip, commons.limit)
    IN  Returned(("items" :> PyList(items)) @@ response1)

\* GET /query_params_data_class/items/, src/main.py:306-315
read_items_query_params_dat_class(items_db, commons) ==
    LET response0 == EmptyDict
        response1 == IF Truthy(commons.q) THEN ("q" :> commons.q) @@ response0
                     ELSE response0
        items == PySlice(items_db, commons.skip, commons.skip + commons.limit)
    IN  Returned(("items" :> PyList(items)) @@ response1)

\* async def pagination_parameters, src/main.py:254-255
pagination_parameters(query) ==
    ("q" :> (IF query.q = <<>> THEN None ELSE PyStr(query.q[1]))) @@
    ("skip" :> PyInt(IF query.skip = <<>> THEN 0 ELSE query.skip[1])) @@
    ("limit" :> PyInt(IF query.limit = <<>> THEN 100 ELSE query.limit[1]))

\* GET /paginated_items, src/main.py:258-260
paginated_items(pagination) == response_model_ItemFake(Returned(pagination))

\* GET /paginated_users/, src/main.py:263-265
paginated_users(pagination) == Returned(pagination)

\* GET /alternative_paginated_items, src/main.py:271-273
alternative_paginated_items(pagination) == response_model_ItemFake(Returned(pagination))

\* GET /alternative_paginated_users/, src/main.py:276-278
alternative_paginated_users(pagination) == Returned(pagination)

\* The query routes keep no state: each is checked on every query string,
\* drawn when the request arrives.
InitQuery ==
    /\ db_items = db_items_literal
    /\ fake_db = EmptyDict
    /\ fake_items_db = fake_items_db_literal
    /\ collection = <<>>
    /\ inflight = {}
    /\ nreq = 0
    /\ request \in [route : {""}, rid : {0}, query : Queries]
    /\ response = NoResponse
    /\ log = <<>>

Answer(route, outcome) ==
    /\ request.route = ""
    /\ request' = [request EXCEPT !.route = route, !.rid = 1]
    /\ response' = app(outcome)
    /\ nreq' = nreq + 1
    /\ UNCHANGED <<db_items, fake_db, fake_items_db, collection, inflight, log>>

GetQueryParamsItems ==
    Answer("query_params",
           read_items_query_params(fake_items_db, CommonQueryParams(request.query)))

GetQueryParamsDataClassItems ==
    Answer("query_params_data_class",
           read_items_query_params_dat_class(fake_items_db,
                                             CommonQueryParamsDataClass(request.query)))

GetPaginatedItems ==
    Answer("paginated_items", paginated_items(pagination_parameters(request.query)))

GetPaginatedUsers ==
    Answer("paginated_users", paginated_users(pagination_parameters(request.query)))

GetAlternativePaginatedItems ==
    Answer("alternative_paginated_items",
           alternative_paginated_items(pagination_parameters(request.query)))

GetAlternativePaginatedUsers ==
    Answer("alternative_paginated_users",
           alternative_paginated_users(pagination_parameters(request.query)))

NextQuery ==
    \/ GetQueryParamsItems
    \/ GetQueryParamsDataClassItems
    \/ GetPaginatedItems
    \/ GetPaginatedUsers
    \/ GetAlternativePaginatedItems
    \/ GetAlternativePaginatedUsers

SpecQuery == InitQuery /\ [][NextQuery]_vars

\* The parameters the request's query string stands for.
QueryQ == IF request.query.q = <<>> THEN None ELSE PyStr(request.query.q[1])
QuerySkip == IF request.query.skip = <<>> THEN 0 ELSE request.query.skip[1]
QueryLimit == IF request.query.limit = <<>> THEN 100 ELSE request.query.limit[1]

C8_Literal ==
    << "item_name" :> PyStr("Foo"), "item_name" :> PyStr("Bar"), "item_name" :> PyStr("Baz") >>

\* C8: GET /query_params/items/ returns under "items" a contiguous,
\* order-preserving part of the three-element fake_items_db, which for
\* skip >= 0 and limit >= 0 has min(limit, max(0, 3 - skip)) elements
\* starting at index skip; "q" is in the response exactly when q is a
\* non-empty string; fake_items_db is never modified; and the dataclass
\* route answers the same q, skip and limit identically.
C8_QueryParams ==
    /\ fake_items_db = C8_Literal
    /\ request.route \in {"query_params", "query_params_data_class"} =>
        LET items == response.body["items"].l
        IN  /\ response.status = 200
            /\ \E k \in 0..3 :
                  /\ k + Len(items) <= 3
                  /\ \A i \in 1..Len(items) : items[i] = C8_Literal[k + i]
            /\ (QuerySkip >= 0 /\ QueryLimit >= 0) =>
                  /\ Len(items) = Min(QueryLimit, Max(0, 3 - QuerySkip))
                  /\ \A i \in 1..Len(items) : items[i] = C8_Literal[QuerySkip + i]
            /\ ("q" \in DOMAIN response.body) <=> (QueryQ.t = "str" /\ QueryQ.s # "")
            /\ "q" \in DOMAIN response.body => response.body["q"] = QueryQ
            /\ response =
                  app(read_items_query_params(fake_items_db,
                                              CommonQueryParams(request.query)))
            /\ response =
                  app(read_items_query_params_dat_class(fake_items_db,
                                              CommonQueryParamsDataClass(request.query)))

\* The dataclass route, asked for two of the three items from the second on,
\* with a query.
C8_Witness ==
    /\ request.route = "query_params_data_class"
    /\ request.query = [q |-> <<"x">>, skip |-> <<1>>, limit |-> <<2>>]
    /\ response.body["items"].l = << "item_name" :> PyStr("Bar"), "item_name" :> PyStr("Baz") >>
    /\ response.body["q"] = PyStr("x")

\* C10: the pagination dependency returns {"q": q, "skip": skip, "limit":
\* limit} with defaults None, 0 and 100; the two users routes echo it
\* unchanged and alike; the two items routes, which pass it through
\* response_model ItemFake, answer every q, skip and limit with the ItemFake
\* defaults.
C10_Pagination ==
    /\ request.route \in {"paginated_users", "alternative_paginated_users"} =>
          /\ response.status = 200
          /\ response.body =
                ("q" :> QueryQ) @@ ("skip" :> PyInt(QuerySkip)) @@ ("limit" :> PyInt(QueryLimit))
          /\ response = app(paginated_users(pagination_parameters(request.query)))
          /\ response = app(alternative_paginated_users(pagination_parameters(request.query)))
    /\ request.route \in {"paginated_items", "alternative_paginated_items"} =>
          /\ response.status = 200
          /\ response.body =
                ("name" :> None) @@ ("description" :> None) @@ ("price" :> None) @@
                ("tax" :> PyFloat(105)) @@ ("tags" :> PyList(<<>>))
          /\ response = app(paginated_items(pagination_parameters(request.query)))
          /\ response = app(alternative_paginated_items(pagination_parameters(request.query)))

C10_Witness ==
    /\ request.route = "alternative_paginated_items"
    /\ request.query = [q |-> <<"x">>, skip |-> <<2>>, limit |-> <<>>]
    /\ response.status = 200
    /\ response.body["tax"] = PyFloat(105)
    /\ DOMAIN response.body = {"name", "description", "price", "tax", "tags"}

----------------------------------------------------------------------------
(* The product lookup *)

MaxDocs == 3

\* class Settings(BaseSettings), src/config.py:4-10: mongodb_url has no
\* default and must come from the environment; the other fields default.
Settings(environ) ==
    [valid |-> "mongodb_url" \in DOMAIN environ,
     app_name |-> IF "app_name" \in DOMAIN environ THEN environ["app_name"]
                  ELSE "Differetmix API",
     debug |-> IF "debug" \in DOMAIN environ THEN environ["debug"] ELSE "True",
     enviroment |-> IF "enviroment" \in DOMAIN environ THEN environ["enviroment"]
                    ELSE "development",
     mongodb_url |-> IF "mongodb_url" \in DOMAIN environ THEN environ["mongodb_url"]
                     ELSE ""]

Environ == ("mongodb_url" :> "mongodb://localhost") @@ ("debug" :> "False")

Eans == {"111", "222", "333"}
Products == [ean : {"111", "222"}, title : {"a", "b"}]
Collections == UNION {[1..n -> Products] : n \in 0..MaxDocs}

\* Faulty variant: the last match instead of the first.
find_one_last(docs, ean) ==
    LET matches == {i \in 1..Len(docs) : docs[i].ean = ean}
    IN  IF matches = {} THEN <<>>
        ELSE << docs[CHOOSE i \in matches : \A j \in matches : j <= i] >>

\* The document store's equality lookup: the first document whose ean is
\* the one asked for, or nothing (the empty sequence stands for the absent
\* value).
find_one(docs, ean) ==
    LET matches == {i \in 1..Len(docs) : docs[i].ean = ean}
    IN  IF matches = {} THEN <<>>
        ELSE << docs[CHOOSE i \in matches : \A j \in matches : i <= j] >>

\* The product-lookup handler: with the settings it is given it opens the
\* store and returns what one lookup by ean returns.
get_product(settings, docs, ean) ==
    IF ~settings.valid THEN Raised(ValidationError)
    ELSE Returned(find_one(docs, ean))

InitProduct ==
    /\ db_items = db_items_literal
    /\ fake_db = EmptyDict
    /\ fake_items_db = fake_items_db_literal
    /\ collection \in Collections
    /\ inflight = {}
    /\ nreq = 0
    /\ request = NoRequest
    /\ response = NoResponse
    /\ log = <<>>

GetProduct(ean) ==
    /\ nreq < MaxRequests
    /\ nreq' = nreq + 1
    /\ request' = [route |-> "product", rid |-> nreq + 1, ean |-> ean]
    /\ response' = app(get_product(Settings(Environ), collection, ean))
    /\ UNCHANGED <<db_items, fake_db, fake_items_db, collection, inflight, log>>

NextProduct == \E ean \in Eans : GetProduct(ean)

SpecProduct == InitProduct /\ [][NextProduct]_vars

C3_Answer ==
    request.route = "product" =>
        /\ response.status = 200
        /\ response.unhandled = ""
        /\ IF \E i \in 1..Len(collection) : collection[i].ean = request.ean
           THEN \E i \in 1..Len(collection) :
                   /\ collection[i].ean = request.ean
                   /\ \A j \in 1..(i - 1) : collection[j].ean # request.ean
                   /\ response.body = << collection[i] >>
           ELSE response.body = <<>>

\* C3: the product lookup returns the first record whose ean is the given
\* identifier when one exists and the absent value, not an error, when none
\* does; the collection is the same before and after the call.
C3_ProductLookup ==
    /\ []C3_Answer
    /\ [][Served("product") => collection' = collection]_vars

\* Two records carry the ean asked for; the first of them is returned.
C3_Witness ==
    /\ request.route = "product"
    /\ Len(collection) = 3
    /\ collection[1].ean # request.ean
    /\ collection[2].ean = request.ean
    /\ collection[3].ean = request.ean
    /\ collection[2] # collection[3]
    /\ response.body = << collection[2] >>

====
